---- MODULE Spec2Model ----
(***************************************************************************)
(* Model of the CEFR speaking-evaluation pipeline:                         *)
(*   app/scoring_agent/tools.py  the pydantic rubric schema                *)
(*   app/scoring_agent/agent.py  judge_speaking (the evaluator)            *)
(*   app/tools.py                log_scores / get_scores (the score store) *)
(*                                                                         *)
(* JSON documents and the Python values built from them are tagged records *)
(* (k = "null", "int", "str", "arr", "obj", "model"), so that values of    *)
(* different kinds can be compared.                                        *)
(***************************************************************************)
EXTENDS Integers, Sequences, FiniteSets, TLC

\* ------------------------------------------------------------------------
\* Values
\* ------------------------------------------------------------------------
Null == [k |-> "null"]
JInt(n) == [k |-> "int", n |-> n]
JStr(s) == [k |-> "str", s |-> s]
JArr(q) == [k |-> "arr", a |-> q]
JObj(f) == [k |-> "obj", o |-> f]
Model(cls, f) == [k |-> "model", cls |-> cls, f |-> f]
NoKeys == [x \in {} |-> Null]

\* ------------------------------------------------------------------------
\* The rubric schema (app/scoring_agent/tools.py)
\* ------------------------------------------------------------------------
\* A field: its Python name, the key it is read from (its alias when it has
\* one), its type and whether it is required (Field(...)).
Field(name, alias, type, required) ==
    [name |-> name, alias |-> alias, type |-> type, required |-> required]

TInt(ge, le) == [t |-> "int", ge |-> ge, le |-> le]
TStr == [t |-> "str"]
TEnum == [t |-> "enum"]
TModel(cls) == [t |-> "model", cls |-> cls]
TList(cls) == [t |-> "list", cls |-> cls]
TOptional(type) == [t |-> "optional", of |-> type]

ScoreMin == 0
ScoreMax == 5

CEFRLevel == {"A1", "A2", "B1", "B2", "C1", "C2"}

Evidence ==
    << Field("excerpt", "excerpt", TStr, TRUE),
       Field("note", "note", TOptional(TStr), FALSE) >>

Subscore ==
    << Field("score", "score", TInt(ScoreMin, ScoreMax), TRUE),
       Field("cefr_estimate", "cefr_estimate", TEnum, TRUE),
       Field("rationale", "rationale", TStr, TRUE),
       Field("evidence", "evidence", TList("Evidence"), FALSE),
       Field("suggestions", "suggestions", TOptional(TStr), FALSE) >>

\* The two fields every criterion judge ends with.
Overall ==
    << Field("overall_cefr", "overall_cefr", TEnum, TRUE),
       Field("overall_comment", "overall_comment", TStr, TRUE) >>

Sub(name) == Field(name, name, TModel("Subscore"), TRUE)

VocabJudge == << Sub("vocab_range"), Sub("vocab_control") >> \o Overall

GrammarJudge ==
    << Field("range_", "range", TModel("Subscore"), TRUE), Sub("accuracy") >>
    \o Overall

FluencyJudge == << Sub("fluency") >> \o Overall

CoherenceJudge == << Sub("organization"), Sub("cohesion_devices") >> \o Overall

InteractionJudge ==
    << Sub("turntaking"), Sub("cooperation_strategies"),
       Sub("managing_breakdowns") >> \o Overall

PronunciationJudge ==
    << Sub("overall_phonological_control"), Sub("sound_articulation"),
       Sub("prosody") >> \o Overall

TaskAchievementJudge ==
    << Sub("relevance_and_coverage"), Sub("functional_adequacy") >> \o Overall

SpeakingEvaluation ==
    << Field("target_level", "target_level", TOptional(TEnum), FALSE),
       Field("vocab", "vocab", TModel("VocabJudge"), TRUE),
       Field("grammar", "grammar", TModel("GrammarJudge"), TRUE),
       Field("fluency", "fluency", TModel("FluencyJudge"), TRUE),
       Field("coherence", "coherence", TModel("CoherenceJudge"), TRUE),
       Field("interaction", "interaction", TModel("InteractionJudge"), TRUE),
       Field("pronunciation", "pronunciation", TModel("PronunciationJudge"), TRUE),
       Field("task", "task", TOptional(TModel("TaskAchievementJudge")), FALSE),
       Field("overall_level", "overall_level", TEnum, TRUE),
       Field("overall_summary", "overall_summary", TStr, TRUE),
       Field("global_recommendations", "global_recommendations",
             TOptional(TStr), FALSE) >>

Schema(cls) ==
    CASE cls = "Evidence" -> Evidence
      [] cls = "Subscore" -> Subscore
      [] cls = "VocabJudge" -> VocabJudge
      [] cls = "GrammarJudge" -> GrammarJudge
      [] cls = "FluencyJudge" -> FluencyJudge
      [] cls = "CoherenceJudge" -> CoherenceJudge
      [] cls = "InteractionJudge" -> InteractionJudge
      [] cls = "PronunciationJudge" -> PronunciationJudge
      [] cls = "TaskAchievementJudge" -> TaskAchievementJudge
      [] cls = "SpeakingEvaluation" -> SpeakingEvaluation

\* ------------------------------------------------------------------------
\* Validation (pydantic, lax mode, JSON input)
\* ------------------------------------------------------------------------
\* A validation returns the errors found, each the location of a field and
\* the kind of failure, and the value built (meaningful when errs = {}).
Err(loc, type) == [loc |-> loc, type |-> type]
Fail(loc, type) == [errs |-> {Err(loc, type)}, val |-> Null]
Pass(val) == [errs |-> {}, val |-> val]

\* list indices as they appear in an error location
IndexName == << "0", "1", "2", "3" >>

\* Lax mode reads an integer from a JSON string holding a number.
NumericStrings == {"0", "1", "2", "3", "4", "5", "6", "7", "8", "9"}
StrToInt(s) ==
    CASE s = "0" -> 0 [] s = "1" -> 1 [] s = "2" -> 2 [] s = "3" -> 3
      [] s = "4" -> 4 [] s = "5" -> 5 [] s = "6" -> 6 [] s = "7" -> 7
      [] s = "8" -> 8 [] s = "9" -> 9

\* A validator that clamps an out-of-range score instead of rejecting it.
ValidateBoundsClamped(n, ge, le, loc) ==
    Pass(JInt(IF n < ge THEN ge ELSE IF n > le THEN le ELSE n))

\* conint(ge=0, le=5): the bounds are checked and the value is kept as it is.
ValidateBounds(n, ge, le, loc) ==
    IF n < ge THEN Fail(loc, "greater_than_equal")
    ELSE IF n > le THEN Fail(loc, "less_than_equal")
    ELSE Pass(JInt(n))

ValidateInt(v, ge, le, loc) ==
    IF v.k = "int" THEN ValidateBounds(v.n, ge, le, loc)
    ELSE IF v.k = "str"
         THEN IF v.s \in NumericStrings
              THEN ValidateBounds(StrToInt(v.s), ge, le, loc)
              ELSE Fail(loc, "int_parsing")
    ELSE Fail(loc, "int_type")

\* A string field declared with min_length=1.
ValidateStrNonEmpty(v, loc) ==
    IF v.k # "str" THEN Fail(loc, "string_type")
    ELSE IF v.s = "" THEN Fail(loc, "string_too_short")
    ELSE Pass(v)

\* str = Field(...): any string, the empty one included.
ValidateStr(v, loc) ==
    IF v.k = "str" THEN Pass(v) ELSE Fail(loc, "string_type")

\* CEFRLevel(str, Enum): one of the six member values.
ValidateEnum(v, loc) ==
    IF v.k = "str" /\ v.s \in CEFRLevel THEN Pass(v) ELSE Fail(loc, "enum")

RECURSIVE Validate(_, _, _)
\* One field of a model: looked up under its alias only; a missing required
\* field is an error, a missing optional one takes its default.
ValidateField(fld, o, loc) ==
    IF fld.alias \in DOMAIN o
    THEN Validate(fld.type, o[fld.alias], Append(loc, fld.alias))
    ELSE IF fld.required THEN Fail(Append(loc, fld.alias), "missing")
    ELSE IF fld.type.t = "list" THEN Pass(JArr(<< >>))
    ELSE Pass(Null)

\* BaseModel: an object; every field validated, every error collected, keys
\* that are no field ignored; the instance holds the fields by name.
ValidateModel(cls, v, loc) ==
    IF v.k # "obj" THEN Fail(loc, "model_type")
    ELSE LET fs == Schema(cls)
             r(i) == ValidateField(fs[i], v.o, loc)
         IN [errs |-> UNION {r(i).errs : i \in DOMAIN fs},
             val |-> Model(cls, [n \in {fs[i].name : i \in DOMAIN fs} |->
                                   r(CHOOSE i \in DOMAIN fs : fs[i].name = n).val])]

ValidateList(cls, v, loc) ==
    IF v.k # "arr" THEN Fail(loc, "list_type")
    ELSE LET r(i) == Validate(TModel(cls), v.a[i], Append(loc, IndexName[i]))
         IN [errs |-> UNION {r(i).errs : i \in DOMAIN v.a},
             val |-> JArr([i \in DOMAIN v.a |-> r(i).val])]

Validate(type, v, loc) ==
    CASE type.t = "int" -> ValidateInt(v, type.ge, type.le, loc)
      [] type.t = "str" -> ValidateStr(v, loc)
      [] type.t = "enum" -> ValidateEnum(v, loc)
      [] type.t = "model" -> ValidateModel(type.cls, v, loc)
      [] type.t = "list" -> ValidateList(type.cls, v, loc)
      [] type.t = "optional" ->
            IF v.k = "null" THEN Pass(Null) ELSE Validate(type.of, v, loc)

\* BaseModel.model_dump(): a dict keyed by the fields' names (by_alias is
\* False), nested models and lists dumped in turn.
RECURSIVE model_dump(_)
model_dump(x) ==
    CASE x.k = "model" -> JObj([n \in DOMAIN x.f |-> model_dump(x.f[n])])
      [] x.k = "arr" -> JArr([i \in DOMAIN x.a |-> model_dump(x.a[i])])
      [] OTHER -> x

\* SpeakingEvaluation.model_validate: the instance, or a ValidationError
\* listing every field that failed.
model_validate(doc) ==
    LET r == ValidateModel("SpeakingEvaluation", doc, << >>)
    IN IF r.errs = {}
       THEN [outcome |-> "ok", errs |-> {}, val |-> r.val]
       ELSE [outcome |-> "ValidationError", errs |-> r.errs, val |-> Null]

\* ------------------------------------------------------------------------
\* JSON text (the collaborator's raw text, read by model_validate_json)
\* ------------------------------------------------------------------------
\* A text is a sequence of tokens: punctuation, string and number literals,
\* and null.
P(c) == [t |-> "punct", c |-> c]
TStrLit(s) == [t |-> "str", s |-> s]
TNum(n) == [t |-> "num", n |-> n]
TNull == [t |-> "null"]
IsP(toks, i, c) == i <= Len(toks) /\ toks[i].t = "punct" /\ toks[i].c = c

ParseFail == [ok |-> FALSE, val |-> Null, pos |-> 0]
ParseOk(val, pos) == [ok |-> TRUE, val |-> val, pos |-> pos]

RECURSIVE ParseValue(_, _)
RECURSIVE ParseMembers(_, _, _)
RECURSIVE ParseElements(_, _, _)
\* "key": value pairs up to the closing brace; a repeated key keeps the last.
ParseMembers(toks, i, acc) ==
    IF ~(i + 1 <= Len(toks) /\ toks[i].t = "str" /\ IsP(toks, i + 1, ":"))
    THEN ParseFail
    ELSE LET r == ParseValue(toks, i + 2)
             acc2 == (toks[i].s :> r.val) @@ acc
         IN IF ~r.ok THEN ParseFail
            ELSE IF IsP(toks, r.pos, ",") THEN ParseMembers(toks, r.pos + 1, acc2)
            ELSE IF IsP(toks, r.pos, "}") THEN ParseOk(JObj(acc2), r.pos + 1)
            ELSE ParseFail

ParseElements(toks, i, acc) ==
    LET r == ParseValue(toks, i)
        acc2 == Append(acc, r.val)
    IN IF ~r.ok THEN ParseFail
       ELSE IF IsP(toks, r.pos, ",") THEN ParseElements(toks, r.pos + 1, acc2)
       ELSE IF IsP(toks, r.pos, "]") THEN ParseOk(JArr(acc2), r.pos + 1)
       ELSE ParseFail

ParseValue(toks, i) ==
    IF i > Len(toks) THEN ParseFail
    ELSE CASE toks[i].t = "str" -> ParseOk(JStr(toks[i].s), i + 1)
           [] toks[i].t = "num" -> ParseOk(JInt(toks[i].n), i + 1)
           [] toks[i].t = "null" -> ParseOk(Null, i + 1)
           [] IsP(toks, i, "{") ->
                 IF IsP(toks, i + 1, "}") THEN ParseOk(JObj(NoKeys), i + 2)
                 ELSE ParseMembers(toks, i + 1, NoKeys)
           [] IsP(toks, i, "[") ->
                 IF IsP(toks, i + 1, "]") THEN ParseOk(JArr(<< >>), i + 2)
                 ELSE ParseElements(toks, i + 1, << >>)
           [] OTHER -> ParseFail

\* A whole text is one value with nothing after it.
ParseJson(toks) ==
    LET r == ParseValue(toks, 1)
    IN IF r.ok /\ r.pos = Len(toks) + 1 THEN r ELSE ParseFail

\* resp.text when the response carries no text
NoText == [k |-> "none"]
Text(toks) == [k |-> "text", toks |-> toks]

\* json.loads followed by model_validate: invalid JSON raises the JSON
\* library's own error.
model_validate_loads(text) ==
    IF text.k # "text"
    THEN [outcome |-> "TypeError", errs |-> {}, val |-> Null]
    ELSE CHOOSE out \in
            {IF ~r.ok
             THEN [outcome |-> "JSONDecodeError", errs |-> {}, val |-> Null]
             ELSE model_validate(r.val) : r \in {ParseJson(text.toks)}} : TRUE

\* SpeakingEvaluation.model_validate_json: invalid JSON, and an input that
\* is no string, are ValidationErrors too. (The parse result r is bound
\* once, as the one element of a set.)
model_validate_json(text) ==
    IF text.k # "text"
    THEN [outcome |-> "ValidationError", errs |-> {Err(<< >>, "json_type")},
          val |-> Null]
    ELSE CHOOSE out \in
            {IF ~r.ok
             THEN [outcome |-> "ValidationError",
                   errs |-> {Err(<< >>, "json_invalid")}, val |-> Null]
             ELSE model_validate(r.val) : r \in {ParseJson(text.toks)}} : TRUE

\* ------------------------------------------------------------------------
\* Documents: the payloads the generation collaborator may return
\* ------------------------------------------------------------------------
MaxEvidence == 1
ProbeScoreMax == 7

RECURSIVE SetToSeq(_)
SetToSeq(S) ==
    IF S = {} THEN << >>
    ELSE LET x == CHOOSE y \in S : TRUE IN << x >> \o SetToSeq(S \ {x})

RECURSIVE Flatten(_)
Flatten(qs) == IF qs = << >> THEN << >> ELSE Head(qs) \o Flatten(Tail(qs))

\* The text of a document: its tokens.
RECURSIVE Tokens(_)
Tokens(v) ==
    CASE v.k = "null" -> << TNull >>
      [] v.k = "int" -> << TNum(v.n) >>
      [] v.k = "str" -> << TStrLit(v.s) >>
      [] v.k = "arr" ->
            << P("[") >>
            \o Flatten([i \in DOMAIN v.a |->
                          (IF i = 1 THEN << >> ELSE << P(",") >>) \o Tokens(v.a[i])])
            \o << P("]") >>
      [] v.k = "obj" ->
            LET ks == SetToSeq(DOMAIN v.o)
            IN << P("{") >>
               \o Flatten([i \in DOMAIN ks |->
                             (IF i = 1 THEN << >> ELSE << P(",") >>)
                             \o << TStrLit(ks[i]), P(":") >> \o Tokens(v.o[ks[i]])])
               \o << P("}") >>

LevelSeq == << "A1", "A2", "B1", "B2", "C1", "C2" >>

\* A document that conforms to a type of the schema: every required field,
\* and with `full` every optional one; the values vary with the field's place.
RECURSIVE Sample(_, _, _)
SampleModel(cls, n, full) ==
    LET fs == Schema(cls)
        used == {i \in DOMAIN fs : fs[i].required \/ full}
    IN JObj([a \in {fs[i].alias : i \in used} |->
               LET i == CHOOSE j \in used : fs[j].alias = a
               IN Sample(fs[i].type, n + i, full)])

Sample(type, n, full) ==
    CASE type.t = "int" -> JInt(n % (ScoreMax + 1))
      [] type.t = "enum" -> JStr(LevelSeq[(n % 6) + 1])
      [] type.t = "str" -> JStr(IF n % 2 = 0 THEN "I go to the market" ELSE "text")
      [] type.t = "model" -> SampleModel(type.cls, n, full)
      [] type.t = "list" ->
            JArr([i \in 1..(IF full THEN MaxEvidence ELSE 0) |->
                    SampleModel(type.cls, n + i, i % 2 = 1)])
      [] type.t = "optional" -> Sample(type.of, n, full)

MinimalDoc == SampleModel("SpeakingEvaluation", 0, FALSE)
FullDoc == SampleModel("SpeakingEvaluation", 1, TRUE)

\* The leaves of a document, as the schema reads it: where each is and the
\* type it is read as.
IndexOfName(s) == CHOOSE i \in DOMAIN IndexName : IndexName[i] = s

RECURSIVE Leaves(_, _, _)
Leaves(type, v, loc) ==
    CASE type.t \in {"int", "enum", "str"} -> {[loc |-> loc, type |-> type]}
      [] type.t = "optional" ->
            IF v.k = "null" THEN {} ELSE Leaves(type.of, v, loc)
      [] type.t = "list" ->
            IF v.k # "arr" THEN {}
            ELSE UNION {Leaves(TModel(type.cls), v.a[i], Append(loc, IndexName[i]))
                          : i \in DOMAIN v.a}
      [] type.t = "model" ->
            IF v.k # "obj" THEN {}
            ELSE LET fs == Schema(type.cls)
                 IN UNION {Leaves(fs[i].type, v.o[fs[i].alias],
                                  Append(loc, fs[i].alias))
                             : i \in {j \in DOMAIN fs : fs[j].alias \in DOMAIN v.o}}

DocLeaves(doc) == Leaves(TModel("SpeakingEvaluation"), doc, << >>)

RECURSIVE At(_, _)
At(v, loc) ==
    IF loc = << >> THEN v
    ELSE IF v.k = "arr" THEN At(v.a[IndexOfName(Head(loc))], Tail(loc))
    ELSE At(v.o[Head(loc)], Tail(loc))

RECURSIVE Replace(_, _, _)
Replace(v, loc, w) ==
    IF loc = << >> THEN w
    ELSE IF v.k = "arr"
         THEN JArr([v.a EXCEPT ![IndexOfName(Head(loc))] =
                                   Replace(@, Tail(loc), w)])
    ELSE JObj([v.o EXCEPT ![Head(loc)] = Replace(@, Tail(loc), w)])

\* The document without the key at loc, and with that key under another name.
RECURSIVE Remove(_, _)
Remove(v, loc) ==
    IF Len(loc) = 1
    THEN JObj([a \in DOMAIN v.o \ {loc[1]} |-> v.o[a]])
    ELSE IF v.k = "arr"
         THEN JArr([v.a EXCEPT ![IndexOfName(Head(loc))] = Remove(@, Tail(loc))])
    ELSE JObj([v.o EXCEPT ![Head(loc)] = Remove(@, Tail(loc))])

Rename(v, loc, key) ==
    LET parent == SubSeq(loc, 1, Len(loc) - 1)
        o == At(v, parent).o
    IN Replace(v, parent,
               JObj((key :> o[loc[Len(loc)]])
                    @@ [a \in DOMAIN o \ {loc[Len(loc)]} |-> o[a]]))

\* What a leaf is replaced by, to probe its validation.
ProbeValues(type) ==
    CASE type.t = "int" ->
            {JInt(n) : n \in -1..ProbeScoreMax}
            \cup {JStr("3"), JStr("7"), JStr("x"), Null}
      [] type.t = "enum" ->
            {JStr(s) : s \in CEFRLevel \cup {"B2.5", "b2", ""}} \cup {Null, JInt(2)}
      [] type.t = "str" -> {JStr(""), JStr("text"), Null, JInt(1)}

\* Two documents used by name: an empty rationale, a score of 6.
EmptyRationale == Replace(MinimalDoc, << "fluency", "fluency", "rationale" >>, JStr(""))
ScoreSix == Replace(MinimalDoc, << "grammar", "accuracy", "score" >>, JInt(6))

Probes(doc, leaves) ==
    UNION {{Replace(doc, l.loc, w) : w \in ProbeValues(l.type)} \cup {Remove(doc, l.loc)}
             : l \in leaves}

\* Every leaf of the minimal document is probed, and of the full one the
\* leaves the minimal one lacks (the optional parts); every CEFR field is
\* probed again in a document that already has a score of 6.
Payloads ==
    {MinimalDoc, FullDoc}
    \cup Probes(MinimalDoc, DocLeaves(MinimalDoc))
    \cup Probes(FullDoc, DocLeaves(FullDoc) \ DocLeaves(MinimalDoc))
    \cup Probes(ScoreSix, {l \in DocLeaves(ScoreSix) : l.type.t = "enum"})
    \cup {Rename(MinimalDoc, << "grammar", "range" >>, "range_")}

\* ------------------------------------------------------------------------
\* The evaluator (app/scoring_agent/agent.py)
\* ------------------------------------------------------------------------
\* What the generation collaborator answers to one request: it raises, or
\* it returns a response with resp.parsed (None, or what it decoded) and
\* resp.text (None, or the raw text).
Raise == [kind |-> "raise"]
Response(parsed, text) == [kind |-> "resp", parsed |-> parsed, text |-> text]

\* Python truth of resp.parsed: None and an empty dict are false.
Truthy(x) == ~(x.k = "null" \/ (x.k = "obj" /\ DOMAIN x.o = {}))

GenerateRequest(user_input) ==
    [model |-> "gemini-2.5-flash", contents |-> user_input,
     response_schema |-> "SpeakingEvaluation"]

Result(requests, outcome, errs, evaluation, value, text_read) ==
    [requests |-> requests, outcome |-> outcome, errs |-> errs,
     evaluation |-> evaluation, value |-> value, text_read |-> text_read]

\* An evaluator that gives up when resp.parsed is missing.
ReadEvaluationNoFallback(reply) ==
    IF Truthy(reply.parsed)
    THEN [outcome |-> "ok", errs |-> {}, val |-> reply.parsed, text_read |-> FALSE]
    ELSE [outcome |-> "ValidationError", errs |-> {Err(<< >>, "no_payload")},
          val |-> Null, text_read |-> FALSE]

\* evaluation = resp.parsed if resp.parsed else
\*              SpeakingEvaluation.model_validate_json(resp.text)
ReadEvaluation(reply) ==
    IF Truthy(reply.parsed)
    THEN [outcome |-> "ok", errs |-> {}, val |-> reply.parsed, text_read |-> FALSE]
    ELSE LET r == model_validate_json(reply.text)
         IN [outcome |-> r.outcome, errs |-> r.errs, val |-> r.val,
             text_read |-> TRUE]

\* return evaluation.model_dump(): a ValidationError raised while reading
\* the evaluation is not caught.
Return(requests, e) ==
    IF e.outcome # "ok"
    THEN Result(requests, e.outcome, e.errs, Null, Null, e.text_read)
    ELSE IF e.val.k # "model"
    THEN Result(requests, "AttributeError", {}, Null, Null, e.text_read)
    ELSE Result(requests, "ok", {}, e.val, model_dump(e.val), e.text_read)

\* The call once its requests are sent: the collaborator's exception is not
\* caught; otherwise the evaluation is read (once) and returned.
Evaluate(requests, reply) ==
    IF reply.kind = "raise"
    THEN Result(requests, "CollaboratorError", {}, Null, Null, FALSE)
    ELSE CHOOSE res \in {Return(requests, e) : e \in {ReadEvaluation(reply)}} : TRUE

\* An evaluator that rejects the empty transcript before calling out.
judge_speaking_checked(user_input, reply) ==
    IF user_input = ""
    THEN Result(<< >>, "EmptyInputError", {}, Null, Null, FALSE)
    ELSE Evaluate(<< GenerateRequest(user_input) >>, reply)

\* An evaluator that asks again when the first answer was no evaluation.
judge_speaking_retry(user_input, reply) ==
    LET r == Evaluate(<< GenerateRequest(user_input) >>, reply)
    IN IF r.outcome = "ok" THEN r
       ELSE Evaluate(<< GenerateRequest(user_input), GenerateRequest(user_input) >>,
                     reply)

\* judge_speaking: one generate_content call, then the evaluation read from
\* the response. The result records what the call sent to the collaborator,
\* how it ended ("ok" with the dict returned, or the exception raised) and
\* whether the raw text was read.
judge_speaking(user_input, reply) ==
    Evaluate(<< GenerateRequest(user_input) >>, reply)

\* ------------------------------------------------------------------------
\* The session score store (app/tools.py)
\* ------------------------------------------------------------------------
\* A store that keeps the first evaluation logged.
log_scores_setdefault(mem, evaluation) ==
    [memory |-> mem @@ ("scores" :> evaluation),
     ret |-> JStr("Scores logged successfully.")]

\* tool_context.memory["scores"] = evaluation
log_scores(mem, evaluation) ==
    [memory |-> ("scores" :> evaluation) @@ mem,
     ret |-> JStr("Scores logged successfully.")]

\* A read without the default: tool_context.memory["scores"].
get_scores_subscript(mem) ==
    IF "scores" \in DOMAIN mem THEN mem["scores"]
    ELSE [k |-> "raised", exc |-> "KeyError"]

\* tool_context.memory.get("scores", {})
get_scores(mem) ==
    IF "scores" \in DOMAIN mem THEN mem["scores"] ELSE JObj(NoKeys)

\* ------------------------------------------------------------------------
\* Inputs
\* ------------------------------------------------------------------------
MaxCalls == 2
MaxPuts == 2

\* agent.py's example transcript, and the empty one
user_text == "Yesterday I go to the market and buy many fruit because it was cheap."
Transcripts == {"", user_text}

\* What the caller may log: the dump of an evaluation, and any other dict
\* (the store does not validate).
Evaluations ==
    {model_dump(model_validate(MinimalDoc).val), JObj(NoKeys),
     JObj([score |-> JInt(9)])}

\* A reply together with the document its text was written from and
\* whether the text was cut short.
Case(reply, doc, cut) == [reply |-> reply, doc |-> doc, cut |-> cut]
TextOf(doc) == Text(Tokens(doc))
MinimalText == Tokens(MinimalDoc)
CutText(n) == Text(SubSeq(MinimalText, 1, n))


Cases ==
    << Case(Raise, Null, FALSE),
       Case(Response(model_validate(MinimalDoc).val, TextOf(MinimalDoc)), MinimalDoc, FALSE),
       Case(Response(Null, TextOf(MinimalDoc)), MinimalDoc, FALSE),
       Case(Response(JObj(NoKeys), TextOf(FullDoc)), FullDoc, FALSE),
       Case(Response(Null, TextOf(EmptyRationale)), EmptyRationale, FALSE),
       Case(Response(Null, TextOf(ScoreSix)), ScoreSix, FALSE),
       Case(Response(Null, CutText(Len(MinimalText) - 1)), MinimalDoc, TRUE),
       Case(Response(Null, CutText(0)), MinimalDoc, TRUE),
       Case(Response(Null, NoText), Null, FALSE) >>

\* judge_speaking on every transcript and case, computed once.
JudgeTable ==
    [u \in Transcripts |-> [i \in DOMAIN Cases |-> judge_speaking(u, Cases[i].reply)]]

\* The texts validation is probed with: every payload, and every proper
\* prefix of a valid text.
TextCases ==
    {Case(Response(Null, TextOf(d)), d, FALSE) : d \in Payloads}
    \cup {Case(Response(Null, CutText(n)), MinimalDoc, TRUE)
            : n \in 0..(Len(MinimalText) - 1)}

\* ------------------------------------------------------------------------
\* State
\* ------------------------------------------------------------------------
VARIABLES
    memory,   \* tool_context.memory of the session
    sent,     \* the requests the generation collaborator has received
    op,       \* the operation performed last
    arg,      \* its argument
    ret,      \* what it returned or raised
    puts      \* the arguments of the log_scores calls so far, in order

vars == << memory, sent, op, arg, ret, puts >>

Init ==
    /\ memory = NoKeys
    /\ sent = << >>
    /\ op = "init"
    /\ arg = Null
    /\ ret = Null
    /\ puts = << >>

LogScores ==
    /\ Len(puts) < MaxPuts
    /\ \E e \in Evaluations :
          /\ memory' = log_scores(memory, e).memory
          /\ op' = "log_scores"
          /\ arg' = e
          /\ ret' = log_scores(memory, e).ret
          /\ puts' = Append(puts, e)
          /\ UNCHANGED sent

GetScores ==
    /\ op' = "get_scores"
    /\ arg' = Null
    /\ ret' = get_scores(memory)
    /\ UNCHANGED << memory, sent, puts >>

\* A call that also logs the evaluation it produced.
JudgeAndLog(user_input, c, r) ==
    /\ op' = "judge_speaking"
    /\ arg' = [user_input |-> user_input, reply |-> c.reply,
               doc |-> c.doc, cut |-> c.cut]
    /\ ret' = r
    /\ sent' = sent \o r.requests
    /\ memory' = IF r.outcome = "ok" THEN log_scores(memory, r.value).memory
                 ELSE memory
    /\ UNCHANGED puts

\* One call of judge_speaking with result r, the collaborator having
\* answered as in case c.
Judge(user_input, c, r) ==
    /\ op' = "judge_speaking"
    /\ arg' = [user_input |-> user_input, reply |-> c.reply,
               doc |-> c.doc, cut |-> c.cut]
    /\ ret' = r
    /\ sent' = sent \o r.requests
    /\ UNCHANGED << memory, puts >>

JudgeSpeaking ==
    /\ Len(sent) < MaxCalls
    /\ \E u \in Transcripts, i \in DOMAIN Cases :
          \E r \in {JudgeTable[u][i]} : Judge(u, Cases[i], r)

Next == LogScores \/ GetScores \/ JudgeSpeaking

Spec == Init /\ [][Next]_vars

\* Validation alone: one call per text, over every probe text.
InitValidate ==
    /\ memory = NoKeys
    /\ sent = << >>
    /\ op = "pending"
    /\ \E c \in TextCases :
          arg = [user_input |-> user_text, reply |-> c.reply,
                 doc |-> c.doc, cut |-> c.cut]
    /\ ret = Null
    /\ puts = << >>

JudgePending ==
    /\ op = "pending"
    /\ \E r \in {judge_speaking(arg.user_input, arg.reply)} :
          Judge(arg.user_input, arg, r)

NextValidate == JudgePending

SpecValidate == InitValidate /\ [][NextValidate]_vars

\* ------------------------------------------------------------------------
\* Properties
\* ------------------------------------------------------------------------
Judged == op = "judge_speaking"
Last(q) == q[Len(q)]
EmptyDict == JObj(NoKeys)

\* The resp.parsed of the call was None or empty.
NoParsed == Judged /\ arg.reply.kind = "resp" /\ ~Truthy(arg.reply.parsed)

\* The call read the text of a whole document (not a cut one).
JudgedDoc == NoParsed /\ ~arg.cut /\ arg.reply.text.k = "text"

\* The leaves of an instance or of a dict: where each is and its value.
RECURSIVE ValueLeaves(_, _)
ValueLeaves(x, loc) ==
    CASE x.k = "model" ->
            UNION {ValueLeaves(x.f[n], Append(loc, n)) : n \in DOMAIN x.f}
      [] x.k = "obj" ->
            UNION {ValueLeaves(x.o[n], Append(loc, n)) : n \in DOMAIN x.o}
      [] x.k = "arr" ->
            UNION {ValueLeaves(x.a[i], Append(loc, IndexName[i])) : i \in DOMAIN x.a}
      [] OTHER -> {[loc |-> loc, val |-> x]}

\* C1: a get_scores that follows at least one log_scores returns the
\* argument of the most recent log_scores, whatever was logged before it.
C1_LastWriteWins ==
    op = "get_scores" /\ puts # << >> => ret = Last(puts)

\* C1 witness: a read after two different evaluations were logged.
C1_Witness ==
    /\ op = "get_scores"
    /\ Len(puts) >= 2
    /\ puts[Len(puts) - 1] # Last(puts)
    /\ ret = Last(puts)

\* C2: get_scores before any log_scores returns the empty dict: no
\* exception, no evaluation.
C2_EmptyMarker ==
    op = "get_scores" /\ puts = << >> => ret = EmptyDict

\* C2 witness: a read of the store nothing was logged to.
C2_Witness == op = "get_scores" /\ puts = << >> /\ memory = NoKeys

C6_StoreUntouched ==
    [][/\ op' = "judge_speaking"
            => memory' = memory /\ get_scores(memory') = get_scores(memory)
       /\ memory' # memory => op' = "log_scores"]_vars

\* C6 witness: a failed call after an evaluation was logged, the store
\* still holding it.
C6_Witness ==
    /\ Judged
    /\ ret.outcome # "ok"
    /\ puts # << >>
    /\ get_scores(memory) = Last(puts)

\* The leaves of a document whose value is out of range: a score that is
\* an integer outside 0..5, a CEFR field that is a string outside A1..C2.
OutOfRange(doc) ==
    {l \in DocLeaves(doc) :
        LET v == At(doc, l.loc)
        IN \/ l.type.t = "int" /\ v.k = "int" /\ v.n \notin 0..5
           \/ l.type.t = "enum" /\ v.k = "str"
                /\ v.s \notin {"A1", "A2", "B1", "B2", "C1", "C2"}}

\* C7: a document with a score or a CEFR field out of range fails with a
\* ValidationError that names every such field, and no evaluation is built.
C7_OutOfRangeRejected ==
    JudgedDoc /\ OutOfRange(arg.doc) # {}
        => /\ ret.outcome = "ValidationError"
           /\ ret.evaluation = Null
           /\ ret.value = Null
           /\ \A l \in OutOfRange(arg.doc) : \E e \in ret.errs : e.loc = l.loc

\* C7 witness: a validated document with a score out of range.
C7_Witness ==
    /\ JudgedDoc
    /\ \E l \in OutOfRange(arg.doc) : l.type.t = "int"
    /\ ret.outcome = "ValidationError"

\* The required strings of an evaluation: each excerpt, rationale,
\* overall_comment, and overall_summary.
RequiredStrings == {"excerpt", "rationale", "overall_comment", "overall_summary"}
RequiredStringLeaves(x) ==
    {l \in ValueLeaves(x, << >>) : Last(l.loc) \in RequiredStrings}

LeafConforms(type, v) ==
    CASE type.t = "int" -> v.k = "int" /\ v.n \in 0..5
      [] type.t = "enum" -> v.k = "str" /\ v.s \in {"A1", "A2", "B1", "B2", "C1", "C2"}
      [] type.t = "str" -> v.k = "str"
Conforming(doc) ==
    /\ \E base \in {MinimalDoc, FullDoc} :
          {l.loc : l \in DocLeaves(doc)} = {l.loc : l \in DocLeaves(base)}
    /\ \A l \in DocLeaves(doc) : LeafConforms(l.type, At(doc, l.loc))

\* Every field of the input is in the output under the same key with the
\* same value.
RECURSIVE Preserved(_, _)
Preserved(in, out) ==
    CASE in.k = "obj" ->
            /\ out.k = "obj"
            /\ \A a \in DOMAIN in.o :
                  a \in DOMAIN out.o /\ Preserved(in.o[a], out.o[a])
      [] in.k = "arr" ->
            /\ out.k = "arr"
            /\ Len(out.a) = Len(in.a)
            /\ \A i \in DOMAIN in.a : Preserved(in.a[i], out.a[i])
      [] OTHER -> in = out

\* C10: a conforming document validates, and what judge_speaking returns
\* holds every field of the document under its key with its value.
C10_RoundTrip ==
    JudgedDoc /\ Conforming(arg.doc)
        => ret.outcome = "ok" /\ Preserved(arg.doc, ret.value)

\* The same with Grammar's "range" looked up under the name "range_": the
\* values are all kept, and the renamed key is the only difference.
RenameRange(doc) == Rename(doc, << "grammar", "range" >>, "range_")
RoundTripUpToRangeKey ==
    JudgedDoc /\ Conforming(arg.doc)
        => ret.outcome = "ok" /\ Preserved(RenameRange(arg.doc), ret.value)

====
